---- MODULE Spec2Model ----
(***************************************************************************)
(* Model of terraform-provider-redisacl: the redisacl_user resource        *)
(* (Create / Read / Update / Delete / Import), the rule builder            *)
(* buildACLSetUserRules and the ACL parser parseACLUser, against a Redis   *)
(* or Valkey backend reached through the UniversalClient wrapper; and the  *)
(* handlers of the resource and of the two data sources running together   *)
(* on the one RedisClient, whose mutex the Reads take.                     *)
(*                                                                         *)
(* Go strings are modelled as sequences of atoms.  The atom alphabet is    *)
(* prefix-free, so two strings are equal in Go exactly when their atom     *)
(* sequences are equal.  SP is the one whitespace atom.                    *)
(***************************************************************************)
EXTENDS Integers, Sequences, FiniteSets, TLC

VARIABLES
    backendKind,  \* "redis" or "valkey": which client wrapper the provider configured
    backend,      \* username -> ACL user held by the server, or NoUser
    tfstate,      \* Terraform state of redisacl_user.test: NoState or a resource model
    diags,        \* diagnostics of the last provider operation
    sent,         \* backend commands issued by the last provider operation, in order
    last,         \* the last operation: its kind, target, plan, prior state and parse result
    fnIn,         \* input of the function under check (SpecBuild, SpecParse, SpecRead)
    fnOut,        \* its output
    fnPc,         \* "input" before the function is applied, "built" / "parsed" / "read" after
    pc,           \* operation running on the shared client -> where its handler stands
    mutex,        \* RedisClient.mutex: "free", or the operation that holds it
    local         \* operation -> what its handler holds: replies taken, its outcome

vars == <<backendKind, backend, tfstate, diags, sent, last, fnIn, fnOut, fnPc, pc, mutex, local>>

resourceVars == <<backendKind, backend, tfstate, diags, sent, last>>

fnVars == <<fnIn, fnOut, fnPc>>

concVars == <<pc, mutex, local>>

----------------------------------------------------------------------------
(* Bounds *)

\* longest commands string of the rule-builder inputs, in words
MaxCmdWords == 3

----------------------------------------------------------------------------
(* Strings *)

SP == " "

\* a one-atom string
S(a) == <<a>>

EmptyString == <<>>

RECURSIVE FieldsAcc(_, _, _)
FieldsAcc(s, cur, out) ==
    IF s = <<>>
    THEN IF cur = <<>> THEN out ELSE Append(out, cur)
    ELSE IF Head(s) = SP
         THEN FieldsAcc(Tail(s), <<>>, IF cur = <<>> THEN out ELSE Append(out, cur))
         ELSE FieldsAcc(Tail(s), Append(cur, Head(s)), out)

\* strings.Fields: the maximal runs of non-whitespace, in order
Fields(s) == FieldsAcc(s, <<>>, <<>>)

RECURSIVE Join(_, _)
\* strings.Join: the parts with sep between each two neighbours
Join(parts, sep) ==
    IF parts = <<>> THEN EmptyString
    ELSE IF Len(parts) = 1 THEN parts[1]
    ELSE parts[1] \o sep \o Join(Tail(parts), sep)

RECURSIVE Flatten(_)
\* the concatenation of a sequence of sequences
Flatten(ss) == IF ss = <<>> THEN <<>> ELSE Head(ss) \o Flatten(Tail(ss))

----------------------------------------------------------------------------
(* terraform-plugin-framework attribute values: null or known *)

StringNull == [null |-> TRUE, v |-> EmptyString]
StringValue(s) == [null |-> FALSE, v |-> s]
BoolNull == [null |-> TRUE, v |-> FALSE]
BoolValue(b) == [null |-> FALSE, v |-> b]
ListNull == [null |-> TRUE, v |-> <<>>]
ListValue(l) == [null |-> FALSE, v |-> l]

IsNull(x) == x.null
ValueString(x) == x.v
ValueBool(x) == x.v
Elements(x) == x.v

\* data.Name.ValueString(), a username
UserName(data) == ValueString(data.Name)[1]

\* ACLUserResourceModel
Model(name, enabled, passwords, keys, channels, commands, selectors, asm) ==
    [ID |-> StringNull, Name |-> StringValue(S(name)), Enabled |-> enabled,
     Passwords |-> passwords, Keys |-> keys, Channels |-> channels,
     Commands |-> commands, Selectors |-> selectors, AllowSelfMutation |-> asm]

----------------------------------------------------------------------------
(* Rule builder *)

RECURSIVE PasswordRules(_)
PasswordRules(pws) ==
    IF pws = <<>> THEN <<>>
    ELSE <<S(">") \o Head(pws)>> \o PasswordRules(Tail(pws))

RECURSIVE SelectorRules(_)
SelectorRules(sels) ==
    IF sels = <<>> THEN <<>>
    ELSE <<S("(") \o Head(sels) \o S(")")>> \o SelectorRules(Tail(sels))

\* a builder whose unset enabled means off
EnabledRulesNullOff(data) ==
    IF IsNull(data.Enabled) THEN <<S("off")>>
    ELSE IF ValueBool(data.Enabled) THEN <<S("on")>> ELSE <<S("off")>>

EnabledRules(data) ==
    IF IsNull(data.Enabled) THEN <<S("on")>>
    ELSE IF ValueBool(data.Enabled) THEN <<S("on")>> ELSE <<S("off")>>

\* a builder that sends the passwords last to first
PasswordSegmentReversed(data) ==
    IF ~IsNull(data.Passwords)
    THEN <<S("resetpass")>> \o
         (IF Len(Elements(data.Passwords)) = 0 THEN <<S("nopass")>>
          ELSE LET pw == Elements(data.Passwords)
               IN  PasswordRules([i \in 1..Len(pw) |-> pw[Len(pw) + 1 - i]]))
    ELSE <<>>

PasswordSegment(data) ==
    IF ~IsNull(data.Passwords)
    THEN <<S("resetpass")>> \o
         (IF Len(Elements(data.Passwords)) = 0 THEN <<S("nopass")>>
          ELSE PasswordRules(Elements(data.Passwords)))
    ELSE <<>>

\* a builder that treats the empty keys string like an unset one
KeySegmentEmptyAsUnset(data) ==
    IF ~IsNull(data.Keys) /\ ValueString(data.Keys) # EmptyString
    THEN <<S("resetkeys")>> \o Fields(ValueString(data.Keys))
    ELSE <<S("~*")>>

KeySegment(data) ==
    IF ~IsNull(data.Keys)
    THEN <<S("resetkeys")>> \o Fields(ValueString(data.Keys))
    ELSE <<S("~*")>>

\* a builder that adds the channel patterns without resetting them first
ChannelSegmentNoReset(data) ==
    IF ~IsNull(data.Channels)
    THEN Fields(ValueString(data.Channels))
    ELSE <<S("&*")>>

ChannelSegment(data) ==
    IF ~IsNull(data.Channels)
    THEN <<S("resetchannels")>> \o Fields(ValueString(data.Channels))
    ELSE <<S("&*")>>

\* a builder that treats the empty commands string like an unset one
CommandSegmentEmptyAsUnset(data) ==
    IF ~IsNull(data.Commands) /\ ValueString(data.Commands) # EmptyString
    THEN <<S("-@all")>> \o Fields(ValueString(data.Commands))
    ELSE <<S("+@all")>>

CommandSegment(data) ==
    IF ~IsNull(data.Commands)
    THEN <<S("-@all")>> \o Fields(ValueString(data.Commands))
    ELSE <<S("+@all")>>

SelectorSegment(data) ==
    IF ~IsNull(data.Selectors) THEN SelectorRules(Elements(data.Selectors)) ELSE <<>>

buildACLSetUserRules(data) ==
    <<S("reset")>> \o EnabledRules(data) \o PasswordSegment(data) \o KeySegment(data)
        \o ChannelSegment(data) \o CommandSegment(data) \o SelectorSegment(data)

----------------------------------------------------------------------------
(* Inputs of the rule builder *)

CmdWords == {"-@all", "+get", "+set"}

RECURSIVE WordSeqs(_, _)
\* the sequences of at most n words
WordSeqs(words, n) ==
    IF n = 0 THEN {<<>>}
    ELSE LET shorter == WordSeqs(words, n - 1)
         IN  shorter \cup {Append(w, a) : w \in {x \in shorter : Len(x) = n - 1}, a \in words}

RECURSIVE Spaced(_)
\* the words, each one a string, separated by single spaces
Spaced(ws) ==
    IF ws = <<>> THEN EmptyString
    ELSE IF Len(ws) = 1 THEN S(ws[1])
    ELSE S(ws[1]) \o S(SP) \o Spaced(Tail(ws))

RECURSIVE Ragged(_)
\* the words with a leading space, doubled separators and a trailing space
Ragged(ws) ==
    IF ws = <<>> THEN S(SP)
    ELSE S(SP) \o S(ws[1]) \o S(SP) \o Ragged(Tail(ws))

BuildCommands ==
    {StringNull, StringValue(S("+@all"))} \cup
    {StringValue(Spaced(w)) : w \in WordSeqs(CmdWords, MaxCmdWords)} \cup
    {StringValue(Ragged(w)) : w \in WordSeqs(CmdWords, MaxCmdWords)}

BuildEnabled == {BoolNull, BoolValue(TRUE), BoolValue(FALSE)}

BuildPasswords == {ListNull, ListValue(<<>>), ListValue(<<S("p1"), S("p2")>>)}

BuildKeys ==
    {StringNull, StringValue(EmptyString), StringValue(Spaced(<<"~k1", "~k2">>)),
     StringValue(Ragged(<<"~k2", "~k1">>)), StringValue(S("~*"))}

BuildChannels == {StringNull, StringValue(EmptyString), StringValue(S("&c1")), StringValue(S("&*"))}

BuildSelectors ==
    {ListNull, ListValue(<<Spaced(<<"~k1", "+get">>)>>),
     ListValue(<<Spaced(<<"~k2", "+set">>), Spaced(<<"~k1", "+get">>)>>)}

BuildInputs ==
    {Model("app", e, p, k, ch, c, s, BoolNull) :
        e \in BuildEnabled, p \in BuildPasswords, k \in BuildKeys,
        ch \in BuildChannels, c \in BuildCommands, s \in BuildSelectors}

----------------------------------------------------------------------------
(* The ACL server (Redis or Valkey): what ACL SETUSER does to a user and    *)
(* what ACL GETUSER reports about it                                        *)

Names == {"app", "admin"}

\* the identity ACL WHOAMI reports for the provider's connection
CurrentUser == "admin"

NoUser == [absent |-> TRUE]

\* the user that the rule "reset" leaves behind
ResetUser ==
    [on |-> FALSE, nopass |-> FALSE, passwords |-> <<>>, keys |-> <<>>, channels |-> <<>>,
     allcommands |-> FALSE, commandRules |-> <<>>, selectors |-> <<>>]

KeyPatterns == {"~*", "~k1", "~k2", "~modified:*"}
ChannelPatterns == {"&*", "&c1", "&c2"}
CommandRules == {"+get", "+set", "+@read", "-del"}

AddOnce(seq, x) == IF \E i \in 1..Len(seq) : seq[i] = x THEN seq ELSE Append(seq, x)

\* whether the server accepts the rule token
ValidRule(tok) ==
    \/ tok \in {S("reset"), S("on"), S("off"), S("resetpass"), S("nopass"), S("resetkeys"),
                S("resetchannels"), S("+@all"), S("-@all")}
    \/ Len(tok) = 1 /\ tok[1] \in KeyPatterns \cup ChannelPatterns \cup CommandRules
    \/ Len(tok) >= 2 /\ tok[1] = ">"
    \/ Len(tok) >= 2 /\ tok[1] = "(" /\ tok[Len(tok)] = ")"

\* one rule token applied to a user
ApplyRule(u, tok) ==
    IF tok = S("reset") THEN ResetUser
    ELSE IF tok = S("on") THEN [u EXCEPT !.on = TRUE]
    ELSE IF tok = S("off") THEN [u EXCEPT !.on = FALSE]
    ELSE IF tok = S("resetpass") THEN [u EXCEPT !.nopass = FALSE, !.passwords = <<>>]
    ELSE IF tok = S("nopass") THEN [u EXCEPT !.nopass = TRUE, !.passwords = <<>>]
    ELSE IF tok = S("resetkeys") THEN [u EXCEPT !.keys = <<>>]
    ELSE IF tok = S("resetchannels") THEN [u EXCEPT !.channels = <<>>]
    ELSE IF tok = S("+@all") THEN [u EXCEPT !.allcommands = TRUE, !.commandRules = <<>>]
    ELSE IF tok = S("-@all") THEN [u EXCEPT !.allcommands = FALSE, !.commandRules = <<>>]
    ELSE IF tok[1] = ">" THEN [u EXCEPT !.nopass = FALSE, !.passwords = AddOnce(@, Tail(tok))]
    ELSE IF tok[1] = "(" THEN [u EXCEPT !.selectors = Append(@, SubSeq(tok, 2, Len(tok) - 1))]
    ELSE IF tok[1] \in KeyPatterns THEN [u EXCEPT !.keys = AddOnce(@, tok)]
    ELSE IF tok[1] \in ChannelPatterns THEN [u EXCEPT !.channels = AddOnce(@, tok)]
    ELSE [u EXCEPT !.commandRules = AddOnce(@, tok)]

RECURSIVE ApplyRules(_, _)
ApplyRules(u, rules) ==
    IF rules = <<>> THEN u ELSE ApplyRules(ApplyRule(u, Head(rules)), Tail(rules))

\* ACL SETUSER name rules...: all rules or, when one is refused, none
SetUser(b, name, rules) ==
    IF \A i \in 1..Len(rules) : ValidRule(rules[i])
    THEN [b EXCEPT ![name] = ApplyRules(IF b[name] = NoUser THEN ResetUser ELSE b[name], rules)]
    ELSE b

SetUserAccepted(rules) == \A i \in 1..Len(rules) : ValidRule(rules[i])

\* ACL DELUSER name
DelUser(b, name) == [b EXCEPT ![name] = NoUser]

\* values of a server reply
StrV(s) == [t |-> "string", s |-> s, a |-> <<>>]
ArrV(a) == [t |-> "array", s |-> EmptyString, a |-> a]
IntV == [t |-> "int", s |-> EmptyString, a |-> <<>>]

\* the commands string of a user: the baseline, then the rules given after it
DescribeCommands(u) ==
    Join(<<IF u.allcommands THEN S("+@all") ELSE S("-@all")>> \o u.commandRules, S(SP))

\* a selector's reply: its words sorted into commands, keys and channels
DescribeSelector(sel) ==
    LET ws == Fields(sel)
        pick(set) == LET idx == {i \in 1..Len(ws) : ws[i][1] \in set}
                         RECURSIVE take(_)
                         take(i) == IF i > Len(ws) THEN <<>>
                                    ELSE (IF i \in idx THEN <<ws[i]>> ELSE <<>>) \o take(i + 1)
                     IN  Join(take(1), S(SP))
    IN  ArrV(<<StrV(S("commands")),
               StrV(Join(<<S("-@all")>> \o Fields(pick(CommandRules)), S(SP))),
               StrV(S("keys")), StrV(pick(KeyPatterns)),
               StrV(S("channels")), StrV(pick(ChannelPatterns))>>)

\* the ACL GETUSER reply for a user, as key/value pairs in the server's order
DescribeUser(u) ==
    <<StrV(S("flags")), ArrV(<<StrV(S(IF u.on THEN "on" ELSE "off"))>> \o
                             (IF u.nopass THEN <<StrV(S("nopass"))>> ELSE <<>>)),
      StrV(S("passwords")), ArrV([i \in 1..Len(u.passwords) |-> StrV(S("#") \o u.passwords[i])]),
      StrV(S("commands")), StrV(DescribeCommands(u)),
      StrV(S("keys")), StrV(Join(u.keys, S(SP))),
      StrV(S("channels")), StrV(Join(u.channels, S(SP))),
      StrV(S("selectors")), ArrV([i \in 1..Len(u.selectors) |-> DescribeSelector(u.selectors[i])])>>

----------------------------------------------------------------------------
(* ACL parser *)

Diag(summary, detail) == [summary |-> summary, detail |-> detail]

HasError(ds) == ds # <<>>

AllStrings(a) == \A i \in 1..Len(a) : a[i].t = "string"

Strs(a) == [i \in 1..Len(a) |-> a[i].s]

\* a parser that reads every string-or-array value as the empty string
StringOrArrayEmpty(v) == [kind |-> "ok", s |-> EmptyString]

\* a value that may be one string or an array of strings, as one string;
\* a non-string array element fails the type assertion p.(string)
StringOrArray(v) ==
    IF v.t = "string" THEN [kind |-> "ok", s |-> v.s]
    ELSE IF v.t = "array"
         THEN IF AllStrings(v.a) THEN [kind |-> "ok", s |-> Join(Strs(v.a), S(SP))]
              ELSE [kind |-> "panic", s |-> EmptyString]
         ELSE [kind |-> "badtype", s |-> EmptyString]

\* types.ListValueFrom of a []string: a nil slice gives the null list
ListValueFrom(strs) == IF strs = <<>> THEN ListNull ELSE ListValue(strs)

SelectorKeys == {S("commands"), S("keys"), S("channels")}

RECURSIVE SelectorParts(_, _, _)
\* the inner loop over one selector's key/value pairs
SelectorParts(sel, j, parts) ==
    IF j > Len(sel) THEN [kind |-> "ok", s |-> Join(parts, S(SP))]
    ELSE IF sel[j].t # "string" \/ j + 1 > Len(sel) THEN [kind |-> "panic", s |-> EmptyString]
    ELSE LET sv == StringOrArray(sel[j + 1])
         IN  IF sv.kind # "ok" THEN sv
             ELSE SelectorParts(sel, j + 2,
                      IF sel[j].s \in SelectorKeys THEN Append(parts, sv.s) ELSE parts)

RECURSIVE SelectorStrs(_, _, _)
\* the loop over the selectors array
SelectorStrs(sels, i, out) ==
    IF i > Len(sels) THEN [kind |-> "ok", strs |-> out]
    ELSE IF sels[i].t # "array" THEN [kind |-> "notarray", strs |-> <<>>]
    ELSE LET r == SelectorParts(sels[i].a, 1, <<>>)
         IN  IF r.kind # "ok" THEN [kind |-> r.kind, strs |-> <<>>]
             ELSE SelectorStrs(sels, i + 1, Append(out, r.s))

ParseOk(data) == [data |-> data, errs |-> <<>>, panic |-> FALSE]

\* a parser that lets a value of unexpected type pass
ParseErrorSilent(data, field) == ParseOk(data)

ParseError(data, field) ==
    [data |-> data, errs |-> <<Diag("Parse Error", <<field>>)>>, panic |-> FALSE]
ParsePanic(data) == [data |-> data, errs |-> <<>>, panic |-> TRUE]

\* a parser that takes the password list from the reply
PasswordsFromReply(data, v) == [data EXCEPT !.Passwords = ListValue(Strs(v.a))]

\* case "passwords": skipped, whatever the reply holds
SkipPasswords(data, v) == data

RECURSIVE ParseFrom(_, _, _)
\* the loop of parseACLUser from index i (1-based) on
ParseFrom(acl, i, data) ==
    IF i > Len(acl) THEN ParseOk(data)
    ELSE IF acl[i].t # "string" \/ i + 1 > Len(acl) THEN ParsePanic(data)
    ELSE
      LET key == acl[i].s
          v == acl[i + 1]
      IN  IF key = S("flags") THEN
              IF v.t # "array" THEN ParseError(data, "flags not array")
              ELSE IF ~AllStrings(v.a) THEN ParsePanic(data)
              ELSE ParseFrom(acl, i + 2,
                       IF \E k \in 1..Len(v.a) : v.a[k].s = S("on")
                       THEN [data EXCEPT !.Enabled = BoolValue(TRUE)] ELSE data)
          ELSE IF key = S("passwords") THEN ParseFrom(acl, i + 2, SkipPasswords(data, v))
          ELSE IF key = S("keys") THEN
              LET r == StringOrArray(v)
              IN  IF r.kind = "panic" THEN ParsePanic(data)
                  ELSE IF r.kind = "badtype" THEN ParseError(data, "keys not string or array")
                  ELSE ParseFrom(acl, i + 2, [data EXCEPT !.Keys = StringValue(r.s)])
          ELSE IF key = S("channels") THEN
              LET r == StringOrArray(v)
              IN  IF r.kind = "panic" THEN ParsePanic(data)
                  ELSE IF r.kind = "badtype" THEN ParseError(data, "channels not string or array")
                  ELSE ParseFrom(acl, i + 2, [data EXCEPT !.Channels = StringValue(r.s)])
          ELSE IF key = S("commands") THEN
              IF v.t # "string" THEN ParseError(data, "commands not string")
              ELSE ParseFrom(acl, i + 2, [data EXCEPT !.Commands = StringValue(v.s)])
          ELSE IF key = S("selectors") THEN
              IF v.t # "array" THEN ParseError(data, "selectors not array")
              ELSE LET r == SelectorStrs(v.a, 1, <<>>)
                   IN  IF r.kind = "panic" THEN ParsePanic(data)
                       ELSE IF r.kind = "notarray" THEN ParseError(data, "selector not array")
                       ELSE IF r.kind = "badtype"
                            THEN ParseError(data, "selector value not string or array")
                       ELSE ParseFrom(acl, i + 2,
                                [data EXCEPT !.Selectors = ListValueFrom(r.strs)])
          ELSE ParseFrom(acl, i + 2, data)

\* a parser that starts from the enabled value it is handed
parseACLUserKeepEnabled(acl, data) == ParseFrom(acl, 1, data)

parseACLUser(acl, data) == ParseFrom(acl, 1, [data EXCEPT !.Enabled = BoolValue(FALSE)])

----------------------------------------------------------------------------
(* UniversalClient: what Do, ACLSetUser and ACLDelUser return *)

Reply(shape, items, err) == [shape |-> shape, items |-> items, err |-> err]

\* a failed call: both wrappers return a nil result with the error
FailedReply == Reply("nil", <<>>, "connection refused")

\* the fields whose value parseACLUser checks the type of
TypedFields == {"flags", "keys", "channels", "commands", "selectors"}

\* a reply of a server that speaks another protocol version: the value under
\* the key has a type the provider does not expect
Malformed(items, key) ==
    [i \in 1..Len(items) |->
        IF i % 2 = 0 /\ items[i - 1] = StrV(S(key)) THEN IntV ELSE items[i]]

\* the descriptor of a user, well-formed or with one malformed field
Descriptors(u) == {DescribeUser(u)} \cup {Malformed(DescribeUser(u), f) : f \in TypedFields}

\* Do(ctx, "ACL", "GETUSER", name)
GetUserReplies(kind, b, name) ==
    {FailedReply} \cup
    (IF b[name] = NoUser
     THEN IF kind = "redis"
          THEN {Reply("nil", <<>>, "redis.Nil"), Reply("array", <<>>, "none")}
          ELSE {Reply("nil", <<>>, "none"), Reply("mapI", <<>>, "none")}
     ELSE IF kind = "redis"
          THEN {Reply("array", d, "none") : d \in Descriptors(b[name])}
          ELSE {Reply("mapI", d, "none") : d \in Descriptors(b[name])} \cup
               {Reply("mapS", DescribeUser(b[name]), "none")})

\* Do(ctx, "ACL", "WHOAMI")
WhoAmIReplies == {FailedReply, Reply("string", S(CurrentUser), "none")}

\* the error of ACLSetUser / ACLDelUser: none, or the call failed
CallErrors == {"none", "connection refused"}

\* the orders in which ranging over a reply map of n entries may visit it
MapOrders(n) == {[i \in 1..n |-> i], [i \in 1..n |-> n + 1 - i]}

RECURSIVE FlattenMap(_, _, _)
\* a flattening that appends each value before its key
FlattenMapValueFirst(items, ord, i) ==
    IF i > Len(ord) THEN <<>>
    ELSE <<items[2 * ord[i]], items[2 * ord[i] - 1]>> \o FlattenMap(items, ord, i + 1)

\* for k, v := range res { val = append(val, k, v) }
FlattenMap(items, ord, i) ==
    IF i > Len(ord) THEN <<>>
    ELSE <<items[2 * ord[i] - 1], items[2 * ord[i]]>> \o FlattenMap(items, ord, i + 1)

Cmd(c, name, rules) == [cmd |-> c, name |-> name, rules |-> rules]

----------------------------------------------------------------------------
(* The redisacl_user resource *)

NoState == [absent |-> TRUE]
NoModel == [absent |-> TRUE]

\* what an operation leaves behind
Outcome(state, ds, cmds, b, parsed) ==
    [state |-> state, diags |-> ds, sent |-> cmds, backend |-> b, parsed |-> parsed]

\* a guard that never finds the user
checkUserExistsNever(reply) == [exists |-> FALSE, err |-> "none"]

\* checkUserExists, from the reply of its ACL GETUSER
checkUserExists(reply) ==
    IF reply.shape = "nil" THEN [exists |-> FALSE, err |-> "none"]
    ELSE IF reply.err # "none"
         THEN IF reply.err = "redis.Nil" THEN [exists |-> FALSE, err |-> "none"]
              ELSE [exists |-> FALSE, err |-> reply.err]
    ELSE [exists |-> TRUE, err |-> "none"]

AlreadyExistsDetail(username) ==
    <<"ACL user \"", username, "\" already exists",
      "This user exists but is ", "not managed by Terraform",
      ". To manage this user with Terraform, please import it first:",
      "terraform import redisacl_user.<resource_name> ", username,
      "Example:", "terraform import redisacl_user.my_user ", username>>

WithID(data) == [data EXCEPT !.ID = data.Name]

\* a Create that sets the state whatever ACLSetUser returns
CreateOutcomeIgnoresError(b, plan, reply, setErr) ==
    LET username == UserName(plan)
        rules == buildACLSetUserRules(plan)
    IN  Outcome(WithID(plan), <<>>,
                <<Cmd("GETUSER", username, <<>>), Cmd("SETUSER", username, rules)>>,
                IF setErr = "none" THEN SetUser(b, username, rules) ELSE b, NoModel)

\* Create: plan in, prior state empty
CreateOutcome(b, plan, reply, setErr) ==
    LET username == UserName(plan)
        ex == checkUserExists(reply)
        get == Cmd("GETUSER", username, <<>>)
        rules == buildACLSetUserRules(plan)
        set == Cmd("SETUSER", username, rules)
    IN  IF ex.err # "none"
        THEN Outcome(NoState,
                 <<Diag("Client Error", <<"Unable to check if user exists, got error: ",
                                          "failed to check if user exists: ", ex.err>>)>>,
                 <<get>>, b, NoModel)
        ELSE IF ex.exists
        THEN Outcome(NoState, <<Diag("User Already Exists", AlreadyExistsDetail(username))>>,
                 <<get>>, b, NoModel)
        ELSE IF setErr # "none" \/ ~SetUserAccepted(rules)
        THEN Outcome(NoState,
                 <<Diag("Client Error", <<"Unable to create ACL user, got error: ",
                        IF setErr # "none" THEN setErr ELSE "ERR Error in ACL SETUSER modifier">>)>>,
                 <<get, set>>, b, NoModel)
        ELSE Outcome(WithID(plan), <<>>, <<get, set>>, SetUser(b, username, rules), NoModel)

\* a Read without the drift rule
DriftRuleAlwaysFresh(state, data) == data

\* a drift rule that drops the leading "-@all " of a fresh value equal to the stored one
DriftRuleUnprefix(state, data) ==
    LET stateCommands == ValueString(state.Commands)
        dataCommands == ValueString(data.Commands)
    IN  IF stateCommands = dataCommands /\ Len(dataCommands) > 2 /\ dataCommands[1] = "-@all"
        THEN [data EXCEPT !.Commands = StringValue(SubSeq(dataCommands, 3, Len(dataCommands)))]
        ELSE IF stateCommands # dataCommands /\ dataCommands = S("-@all") \o S(SP) \o stateCommands
        THEN [data EXCEPT !.Commands = state.Commands]
        ELSE data

\* the commands drift rule at the end of Read
DriftRule(state, data) ==
    LET stateCommands == ValueString(state.Commands)
        dataCommands == ValueString(data.Commands)
    IN  IF stateCommands # dataCommands /\ dataCommands = S("-@all") \o S(SP) \o stateCommands
        THEN [data EXCEPT !.Commands = state.Commands]
        ELSE data

\* Read: prior state in; the reply of ACL GETUSER and the order a reply map is ranged in
ReadOutcome(b, prior, reply, ord) ==
    LET get == Cmd("GETUSER", UserName(prior), <<>>)
        val == IF reply.shape = "array" THEN reply.items
               ELSE FlattenMap(reply.items, ord, 1)
        p == parseACLUser(val, prior)
    IN  IF reply.err # "none"
        THEN IF reply.err = "redis.Nil" THEN Outcome(NoState, <<>>, <<get>>, b, NoModel)
             ELSE Outcome(prior,
                      <<Diag("Client Error",
                             <<"Unable to read ACL user result, got error: ", reply.err>>)>>,
                      <<get>>, b, NoModel)
        ELSE IF reply.shape \notin {"array", "mapI", "mapS"}
        THEN Outcome(prior,
                 <<Diag("Client Error",
                        <<"Unable to parse ACL GETUSER response: unexpected type ", reply.shape>>)>>,
                 <<get>>, b, NoModel)
        ELSE IF Len(val) = 0 THEN Outcome(NoState, <<>>, <<get>>, b, NoModel)
        ELSE IF p.panic THEN Outcome(prior, <<Diag("panic", <<"runtime error">>)>>, <<get>>, b, NoModel)
        ELSE IF HasError(p.errs) THEN Outcome(prior, p.errs, <<get>>, b, NoModel)
        ELSE Outcome(WithID(DriftRule(prior, p.data)), <<>>, <<get>>, b, p.data)

\* an Update that sends the rules without the leading reset
UpdateOutcomeIncremental(b, prior, plan, reply, setErr) ==
    LET rules == Tail(buildACLSetUserRules(plan))
    IN  Outcome(WithID(plan), <<>>, <<Cmd("SETUSER", UserName(plan), rules)>>,
                SetUser(b, UserName(plan), rules), NoModel)

\* an Update / Delete without the self-mutation check
SelfMutationGuardOff(data, reply, verb) == [stop |-> FALSE, diags |-> <<>>, sent |-> <<>>]

\* a self-mutation check that ignores allow_self_mutation
SelfMutationGuardAlways(data, reply, verb) ==
    IF reply.err # "none" \/ reply.shape # "string"
    THEN [stop |-> TRUE, sent |-> <<Cmd("WHOAMI", "", <<>>)>>,
          diags |-> <<Diag("Client Error", <<"Unable to get current user">>)>>]
    ELSE IF reply.items = ValueString(data.Name)
    THEN [stop |-> TRUE, sent |-> <<Cmd("WHOAMI", "", <<>>)>>,
          diags |-> <<Diag("Self-Mutation Error", <<"Cannot ", verb>>)>>]
    ELSE [stop |-> FALSE, sent |-> <<Cmd("WHOAMI", "", <<>>)>>, diags |-> <<>>]

\* the self-mutation check of Update and Delete
SelfMutationGuard(data, reply, verb) ==
    IF ~ValueBool(data.AllowSelfMutation)
    THEN IF reply.err # "none"
         THEN [stop |-> TRUE, sent |-> <<Cmd("WHOAMI", "", <<>>)>>,
               diags |-> <<Diag("Client Error",
                                <<"Unable to get current user, got error: ", reply.err>>)>>]
         ELSE IF reply.shape # "string"
         THEN [stop |-> TRUE, sent |-> <<Cmd("WHOAMI", "", <<>>)>>,
               diags |-> <<Diag("Client Error", <<"Unable to parse current user response">>)>>]
         ELSE IF reply.items = ValueString(data.Name)
         THEN [stop |-> TRUE, sent |-> <<Cmd("WHOAMI", "", <<>>)>>,
               diags |-> <<Diag("Self-Mutation Error",
                                <<"Cannot ", verb, " the currently authenticated user without setting allow_self_mutation to true">>)>>]
         ELSE [stop |-> FALSE, sent |-> <<Cmd("WHOAMI", "", <<>>)>>, diags |-> <<>>]
    ELSE [stop |-> FALSE, sent |-> <<>>, diags |-> <<>>]

\* Update: plan in, prior state kept unless the new one is set
UpdateOutcome(b, prior, plan, reply, setErr) ==
    LET username == UserName(plan)
        g == SelfMutationGuard(plan, reply, "modify")
        rules == buildACLSetUserRules(plan)
        set == Cmd("SETUSER", username, rules)
    IN  IF g.stop THEN Outcome(prior, g.diags, g.sent, b, NoModel)
        ELSE IF setErr # "none" \/ ~SetUserAccepted(rules)
        THEN Outcome(prior,
                 <<Diag("Client Error", <<"Unable to update ACL user, got error: ",
                        IF setErr # "none" THEN setErr ELSE "ERR Error in ACL SETUSER modifier">>)>>,
                 g.sent \o <<set>>, b, NoModel)
        ELSE Outcome(WithID(plan), <<>>, g.sent \o <<set>>, SetUser(b, username, rules), NoModel)

\* a Delete that does not report the error of ACLDelUser
DeleteOutcomeDropsState(b, prior, reply, delErr) ==
    LET g == SelfMutationGuard(prior, reply, "delete")
    IN  IF g.stop THEN Outcome(prior, g.diags, g.sent, b, NoModel)
        ELSE Outcome(NoState, <<>>, g.sent \o <<Cmd("DELUSER", UserName(prior), <<>>)>>,
                     IF delErr = "none" THEN DelUser(b, UserName(prior)) ELSE b, NoModel)

\* Delete: prior state in; the framework drops the state when no error is recorded
DeleteOutcome(b, prior, reply, delErr) ==
    LET username == UserName(prior)
        g == SelfMutationGuard(prior, reply, "delete")
        del == Cmd("DELUSER", username, <<>>)
    IN  IF g.stop THEN Outcome(prior, g.diags, g.sent, b, NoModel)
        ELSE IF delErr # "none"
        THEN Outcome(prior,
                 <<Diag("Client Error", <<"Unable to delete ACL user, got error: ", delErr>>)>>,
                 g.sent \o <<del>>, b, NoModel)
        ELSE Outcome(NoState, <<>>, g.sent \o <<del>>, DelUser(b, username), NoModel)

\* ImportStatePassthroughID(path.Root("name")): only the name is known
ImportedState(name) ==
    Model(name, BoolNull, ListNull, StringNull, StringNull, StringNull, ListNull, BoolNull)

----------------------------------------------------------------------------
(* Configurations Terraform may plan, and changes made behind its back *)

PlanBases ==
    {<<BoolNull, ListNull, StringNull, StringNull>>,
     <<BoolValue(TRUE), ListValue(<<S("p1")>>), StringValue(Spaced(<<"~k1", "~k2">>)),
       StringValue(S("&c1"))>>}

PlanCommands ==
    {StringNull, StringValue(EmptyString), StringValue(Spaced(<<"+get", "+set">>)),
     StringValue(Spaced(<<"-@all", "+get", "+set">>))}

AppPlans ==
    {Model("app", pb[1], pb[2], pb[3], pb[4], c, ListNull, BoolNull) :
        pb \in PlanBases, c \in PlanCommands}

AdminPlans ==
    {Model("admin", BoolValue(TRUE), ListNull, StringValue(S("~*")), StringValue(S("&*")),
           StringValue(S("+@all")), ListNull, asm) :
        asm \in {BoolNull, BoolValue(FALSE), BoolValue(TRUE)}}

Plans == AppPlans \cup AdminPlans

\* rule lists an operator may send with redis-cli, outside Terraform
OutOfBandRules ==
    {<<S("reset"), S("on"), S("~modified:*"), S("&*"), S("+@all")>>,
     <<S("reset"), S("on"), S(">") \o S("testpass123"), S("~*"), S("&*"), S("-@all"), S("+get"), S("+set")>>}

InitialAdmin == ApplyRules(ResetUser, <<S("on"), S("nopass"), S("~*"), S("&*"), S("+@all")>>)

\* the typed fields of a reply whose value is not of a type parseACLUser accepts
BadFields(items) ==
    {f \in TypedFields :
        \E i \in 1..(Len(items) \div 2) :
            /\ items[2 * i - 1] = StrV(S(f))
            /\ items[2 * i].t \notin (IF f \in {"flags", "selectors"} THEN {"array"}
                                     ELSE IF f = "commands" THEN {"string"}
                                     ELSE {"string", "array"})}

Last(op, name, plan, reply, parsed, prior, callErr) ==
    [op |-> op, name |-> name, plan |-> plan, prior |-> prior, callErr |-> callErr,
     reply |-> [shape |-> reply.shape, err |-> reply.err, empty |-> reply.items = <<>>,
                bad |-> IF reply.shape = "string" THEN {} ELSE BadFields(reply.items)],
     parsed |-> parsed]

NoReply == Reply("none", <<>>, "none")

FnIdle == fnIn = NoModel /\ fnOut = <<>> /\ fnPc = "idle"

\* no operation is running on the client
ConcIdle == pc = <<>> /\ mutex = "free" /\ local = <<>>

ResourceIdle ==
    /\ backendKind = "redis"
    /\ backend = [n \in Names |-> IF n = CurrentUser THEN InitialAdmin ELSE NoUser]
    /\ tfstate = NoState
    /\ diags = <<>>
    /\ sent = <<>>
    /\ last = Last("none", "", NoModel, NoReply, NoModel, NoState, "none")

Init ==
    /\ backendKind \in {"redis", "valkey"}
    /\ backend = [n \in Names |-> IF n = CurrentUser THEN InitialAdmin ELSE NoUser]
    /\ tfstate = NoState
    /\ diags = <<>>
    /\ sent = <<>>
    /\ last = Last("none", "", NoModel, NoReply, NoModel, NoState, "none")
    /\ FnIdle
    /\ ConcIdle

Finish(op, name, plan, reply, callErr, out) ==
    /\ tfstate' = out.state
    /\ diags' = out.diags
    /\ sent' = out.sent
    /\ backend' = out.backend
    /\ last' = Last(op, name, plan, reply, out.parsed, tfstate,
                     IF \E i \in 1..Len(out.sent) : out.sent[i].cmd \in {"SETUSER", "DELUSER"}
                     THEN callErr ELSE "none")
    /\ UNCHANGED <<backendKind, fnVars, concVars>>

Create ==
    /\ tfstate = NoState
    /\ \E plan \in Plans, setErr \in CallErrors :
         \E reply \in GetUserReplies(backendKind, backend, UserName(plan)) :
            Finish("Create", UserName(plan), plan, reply, setErr,
                   CreateOutcome(backend, plan, reply, setErr))

Read ==
    /\ tfstate # NoState
    /\ \E reply \in GetUserReplies(backendKind, backend, UserName(tfstate)) :
         \E ord \in MapOrders(Len(reply.items) \div 2) :
            Finish("Read", UserName(tfstate), NoModel, reply, "none",
                   ReadOutcome(backend, tfstate, reply, ord))

\* terraform import: ImportState, then Read; a failed Read imports nothing
Import ==
    /\ tfstate = NoState
    /\ \E name \in Names :
         \E reply \in GetUserReplies(backendKind, backend, name) :
            \E ord \in MapOrders(Len(reply.items) \div 2) :
               LET out == ReadOutcome(backend, ImportedState(name), reply, ord)
               IN  Finish("Import", name, NoModel, reply, "none",
                          IF HasError(out.diags) THEN [out EXCEPT !.state = NoState] ELSE out)

Update ==
    /\ tfstate # NoState
    /\ \E plan \in Plans, reply \in WhoAmIReplies, setErr \in CallErrors :
         /\ plan.Name = tfstate.Name
         /\ Finish("Update", UserName(plan), plan, reply, setErr,
                   UpdateOutcome(backend, tfstate, plan, reply, setErr))

Delete ==
    /\ tfstate # NoState
    /\ \E reply \in WhoAmIReplies, delErr \in CallErrors :
         Finish("Delete", UserName(tfstate), NoModel, reply, delErr,
                DeleteOutcome(backend, tfstate, reply, delErr))

\* ACL SETUSER sent to the server by someone else
OutOfBandSetUser ==
    /\ \E rules \in OutOfBandRules : backend' = SetUser(backend, "app", rules)
    /\ last' = Last("OutOfBand", "app", NoModel, NoReply, NoModel, tfstate, "none")
    /\ diags' = <<>>
    /\ sent' = <<>>
    /\ UNCHANGED <<backendKind, tfstate, fnVars, concVars>>

\* ACL DELUSER sent to the server by someone else
OutOfBandDelUser ==
    /\ backend["app"] # NoUser
    /\ backend' = DelUser(backend, "app")
    /\ last' = Last("OutOfBand", "app", NoModel, NoReply, NoModel, tfstate, "none")
    /\ diags' = <<>>
    /\ sent' = <<>>
    /\ UNCHANGED <<backendKind, tfstate, fnVars, concVars>>

Next ==
    \/ Create
    \/ Read
    \/ Import
    \/ Update
    \/ Delete
    \/ OutOfBandSetUser
    \/ OutOfBandDelUser

Spec == Init /\ [][Next]_vars

----------------------------------------------------------------------------
(* The rule builder alone, over all its inputs *)

InitBuild ==
    /\ ResourceIdle
    /\ fnIn \in BuildInputs
    /\ fnOut = <<>>
    /\ fnPc = "input"
    /\ ConcIdle

Build ==
    /\ fnPc = "input"
    /\ fnOut' = buildACLSetUserRules(fnIn)
    /\ fnPc' = "built"
    /\ UNCHANGED <<fnIn, resourceVars, concVars>>

NextBuild == Build

SpecBuild == InitBuild /\ [][NextBuild]_vars

----------------------------------------------------------------------------
(* Properties *)

Contains(detail, fragment) == \E i \in 1..Len(detail) : detail[i] = fragment

\* whether the fragments occur in the text next to each other, in this order
ContainsPhrase(detail, phrase) ==
    \E i \in 0..(Len(detail) - Len(phrase)) :
        \A j \in 1..Len(phrase) : detail[i + j] = phrase[j]

Sent(cmds, c) == \E i \in 1..Len(cmds) : cmds[i].cmd = c

\* the last operation's ACL GETUSER was answered with a user's descriptor
GotDescriptor(l) == l.reply.err = "none" /\ l.reply.shape \in {"array", "mapI", "mapS"} /\ ~l.reply.empty

\* the last operation's ACL GETUSER said that there is no such user
GotAbsent(l) ==
    \/ l.reply.err = "redis.Nil"
    \/ l.reply.err = "none" /\ l.reply.shape = "nil"
    \/ l.reply.err = "none" /\ l.reply.shape \in {"array", "mapI", "mapS"} /\ l.reply.empty

\* C1: a Create whose existence check finds the user records one "User Already
\* Exists" error that holds the username, "not managed by Terraform" and the
\* import command for that username; it sends no ACL SETUSER, leaves the
\* server's users as they were and writes no state.
C1_ExistingUserRefused ==
    [][(last'.op = "Create" /\ backend[last'.name] # NoUser /\ GotDescriptor(last'))
       => /\ Len(diags') = 1
          /\ diags'[1].summary = "User Already Exists"
          /\ ContainsPhrase(diags'[1].detail, <<"ACL user \"", last'.name, "\" already exists">>)
          /\ Contains(diags'[1].detail, "not managed by Terraform")
          /\ ContainsPhrase(diags'[1].detail,
                            <<"terraform import redisacl_user.<resource_name> ", last'.name>>)
          /\ ~Sent(sent', "SETUSER")
          /\ backend' = backend
          /\ tfstate' = NoState]_vars

C1_Witness ==
    /\ last.op = "Create"
    /\ GotDescriptor(last)
    /\ backend[last.name] # NoUser
    /\ diags # <<>>
    /\ diags[1].summary = "User Already Exists"
    /\ sent = <<Cmd("GETUSER", last.name, <<>>)>>

\* the allow_self_mutation flag an Update (from its plan) or a Delete (from the
\* prior state) looks at
GuardFlag(l, prior) ==
    IF l.op = "Update" THEN l.plan.AllowSelfMutation ELSE prior.AllowSelfMutation

\* C2: an Update or Delete of the user ACL WHOAMI names, with allow_self_mutation
\* false or unset, records a Self-Mutation Error (worded "modify" for Update,
\* "delete" for Delete), sends no ACL SETUSER and no ACL DELUSER and leaves the
\* state and the server's users as they were.
C2_SelfMutationRefused ==
    [][(/\ last'.op \in {"Update", "Delete"}
        /\ last'.name = CurrentUser
        /\ last'.reply.err = "none"
        /\ ~ValueBool(GuardFlag(last', tfstate)))
       => /\ Len(diags') = 1
          /\ diags'[1].summary = "Self-Mutation Error"
          /\ Contains(diags'[1].detail, IF last'.op = "Update" THEN "modify" ELSE "delete")
          /\ ~Sent(sent', "SETUSER")
          /\ ~Sent(sent', "DELUSER")
          /\ tfstate' = tfstate
          /\ backend' = backend]_vars

C2_Witness ==
    /\ last.op = "Delete"
    /\ last.name = CurrentUser
    /\ diags # <<>>
    /\ diags[1].summary = "Self-Mutation Error"
    /\ Contains(diags[1].detail, "delete")
    /\ sent = <<Cmd("WHOAMI", "", <<>>)>>
    /\ tfstate # NoState
    /\ backend[CurrentUser] # NoUser

\* C3: a Create whose existence check fails with an error other than not-found
\* records an error that holds "failed to check if user exists" and the cause
\* and neither "already exists" nor the import text, and sends no ACL SETUSER.
C3_CheckFailureReported ==
    (last.op = "Create" /\ last.reply.err \notin {"none", "redis.Nil"})
    => /\ Len(diags) = 1
       /\ ContainsPhrase(diags[1].detail, <<"failed to check if user exists: ", last.reply.err>>)
       /\ ~Contains(diags[1].detail, "\" already exists")
       /\ ~Contains(diags[1].detail, "terraform import redisacl_user.<resource_name> ")
       /\ ~Sent(sent, "SETUSER")

\* C4: a Read or an import that is told the user is absent (a nil result, a
\* not-found error or an empty reply) leaves no resource in state and records
\* no error, on the Redis and on the Valkey client.
C4_AbsentUserRemoved ==
    (last.op \in {"Read", "Import"} /\ GotAbsent(last))
    => /\ tfstate = NoState
       /\ diags = <<>>

\* C5: in a Read that parsed the reply, when the stored commands string differs
\* from the fresh one, the stored value is kept if the fresh string is
\* "-@all ", then the stored string; otherwise the fresh string is stored.
C5_DriftRule ==
    [][(last'.op = "Read" /\ last'.parsed # NoModel)
       => LET stored == ValueString(tfstate.Commands)
              fresh == ValueString(last'.parsed.Commands)
          IN  stored # fresh
              => IF fresh = <<"-@all", SP>> \o stored
                 THEN tfstate'.Commands = tfstate.Commands
                 ELSE tfstate'.Commands = StringValue(fresh)]_vars

C5_Witness ==
    /\ last.op = "Read"
    /\ last.parsed # NoModel
    /\ tfstate # NoState
    /\ ValueString(last.parsed.Commands) = <<"-@all", SP>> \o ValueString(tfstate.Commands)
    /\ ValueString(tfstate.Commands) = Spaced(<<"+get", "+set">>)

\* the step is a Read that parsed the reply, right after a Create or Update
\* none of whose calls failed
ReadAfterApply ==
    /\ last.op \in {"Create", "Update"}
    /\ last.reply.err \in {"none", "redis.Nil"}
    /\ diags = <<>>
    /\ last'.op = "Read"
    /\ last'.parsed # NoModel

\* C6: a Read right after a successful apply, from a server that reports
\* commands with the -@all prefix, leaves enabled, keys, channels and commands
\* in state as they were configured.
C6_NoDriftAfterApply ==
    [][(ReadAfterApply /\ Head(ValueString(last'.parsed.Commands)) = "-@all")
       => /\ tfstate'.Enabled = last.plan.Enabled
          /\ tfstate'.Keys = last.plan.Keys
          /\ tfstate'.Channels = last.plan.Channels
          /\ tfstate'.Commands = last.plan.Commands]_vars

\* the value a field has on the server when the configuration leaves it unset
Effective(x, default) == IF IsNull(x) THEN default ELSE x

\* C7: building the rules of a descriptor, applying them, reading the user back
\* and parsing gives the configured enabled, keys and channels (an unset field
\* counting as its default), and the configured commands or "-@all " and the
\* configured commands.
C7_RoundTrip ==
    [][ReadAfterApply
       => LET plan == last.plan
              parsed == last'.parsed
          IN  /\ parsed.Enabled = Effective(plan.Enabled, BoolValue(TRUE))
              /\ parsed.Keys = Effective(plan.Keys, StringValue(S("~*")))
              /\ parsed.Channels = Effective(plan.Channels, StringValue(S("&*")))
              /\ \/ parsed.Commands = Effective(plan.Commands, StringValue(S("+@all")))
                 \/ ValueString(parsed.Commands) = <<"-@all", SP>> \o ValueString(plan.Commands)]_vars

----------------------------------------------------------------------------
(* Properties of the rule builder (SpecBuild) *)

\* the number of tokens each field of the descriptor contributes
PasswordTokens(d) ==
    IF IsNull(d.Passwords) THEN 0
    ELSE IF Elements(d.Passwords) = <<>> THEN 2 ELSE 1 + Len(Elements(d.Passwords))
KeyTokens(d) == IF IsNull(d.Keys) THEN 1 ELSE 1 + Len(Fields(ValueString(d.Keys)))
ChannelTokens(d) == IF IsNull(d.Channels) THEN 1 ELSE 1 + Len(Fields(ValueString(d.Channels)))
CommandTokens(d) == IF IsNull(d.Commands) THEN 1 ELSE 1 + Len(Fields(ValueString(d.Commands)))
SelectorTokens(d) == IF IsNull(d.Selectors) THEN 0 ELSE Len(Elements(d.Selectors))

\* where the command tokens start in the rule list
CommandStart(d) == 3 + PasswordTokens(d) + KeyTokens(d) + ChannelTokens(d)

\* the command tokens of a rule list built from d
CommandTokensOf(r, d) == SubSeq(r, CommandStart(d), CommandStart(d) + CommandTokens(d) - 1)

\* C8: the rule list starts with "reset", then "on" (enabled unset or true) or
\* "off" (enabled false); then come the password, key, channel and command
\* tokens in this order, each segment led by its own marker, and last the
\* selectors, one parenthesised token each, in list order.
C8_SegmentOrder ==
    fnPc = "built" =>
      LET r == fnOut
          d == fnIn
          pw == 3
          key == pw + PasswordTokens(d)
          chan == key + KeyTokens(d)
          cmd == chan + ChannelTokens(d)
          sel == cmd + CommandTokens(d)
      IN  /\ Len(r) = sel + SelectorTokens(d) - 1
          /\ r[1] = S("reset")
          /\ r[2] = (IF IsNull(d.Enabled) \/ ValueBool(d.Enabled) THEN S("on") ELSE S("off"))
          /\ ~IsNull(d.Passwords) => r[pw] = S("resetpass")
          /\ \A i \in (pw + 1)..(key - 1) : r[i] = S("nopass") \/ r[i][1] = ">"
          /\ r[key] = (IF IsNull(d.Keys) THEN S("~*") ELSE S("resetkeys"))
          /\ \A i \in (key + 1)..(chan - 1) : r[i][1] \in KeyPatterns
          /\ r[chan] = (IF IsNull(d.Channels) THEN S("&*") ELSE S("resetchannels"))
          /\ \A i \in (chan + 1)..(cmd - 1) : r[i][1] \in ChannelPatterns
          /\ r[cmd] = (IF IsNull(d.Commands) THEN S("+@all") ELSE S("-@all"))
          /\ \A i \in (cmd + 1)..(sel - 1) : r[i][1] \in CmdWords \cup {"+@all"}
          /\ \A i \in 1..SelectorTokens(d) :
                r[sel + i - 1] = <<"(">> \o Elements(d.Selectors)[i] \o <<")">>

C8_Witness ==
    /\ fnPc = "built"
    /\ IsNull(fnIn.Enabled)
    /\ fnIn.Passwords = ListValue(<<S("p1"), S("p2")>>)
    /\ fnIn.Keys = StringValue(Spaced(<<"~k1", "~k2">>))
    /\ fnIn.Channels = StringValue(S("&c1"))
    /\ fnIn.Commands = StringValue(Spaced(<<"+get", "+set">>))
    /\ Len(Elements(fnIn.Selectors)) = 2
    /\ Len(fnOut) = 15
    /\ fnOut[2] = S("on")
    /\ fnOut[15] = <<"(">> \o Elements(fnIn.Selectors)[2] \o <<")">>

DenyAllCount(r) == Cardinality({i \in 1..Len(r) : r[i] = S("-@all")})

\* C10: when commands begins with the word "-@all", no second "-@all" is
\* emitted: the rule list holds "-@all" as often as commands does, and it is
\* the list that commands without this leading word builds.
C10_NoDuplicateDenyAll ==
    (/\ fnPc = "built"
     /\ ~IsNull(fnIn.Commands)
     /\ Fields(ValueString(fnIn.Commands)) # <<>>
     /\ Head(Fields(ValueString(fnIn.Commands))) = S("-@all"))
    => /\ DenyAllCount(fnOut) = DenyAllCount(Fields(ValueString(fnIn.Commands)))
       /\ fnOut = buildACLSetUserRules(
                     [fnIn EXCEPT !.Commands =
                         StringValue(Join(Tail(Fields(ValueString(fnIn.Commands))), S(SP)))])

\* the tokens of r from position i on, n of them
TokensAt(r, i, n) == SubSeq(r, i, i + n - 1)

\* C11: the key tokens are "resetkeys" and then the whitespace-separated words
\* of keys when keys is set ("resetkeys" alone for the empty string) and the
\* one token "~*" when keys is unset; the channel tokens are the same with
\* "resetchannels" and "&*".
C11_KeyAndChannelTokens ==
    fnPc = "built" =>
      LET d == fnIn
          keyTokens == TokensAt(fnOut, 3 + PasswordTokens(d), KeyTokens(d))
          chanTokens == TokensAt(fnOut, 3 + PasswordTokens(d) + KeyTokens(d), ChannelTokens(d))
      IN  /\ keyTokens = (IF IsNull(d.Keys) THEN <<S("~*")>>
                          ELSE IF ValueString(d.Keys) = EmptyString THEN <<S("resetkeys")>>
                          ELSE <<S("resetkeys")>> \o Fields(ValueString(d.Keys)))
          /\ chanTokens = (IF IsNull(d.Channels) THEN <<S("&*")>>
                           ELSE IF ValueString(d.Channels) = EmptyString THEN <<S("resetchannels")>>
                           ELSE <<S("resetchannels")>> \o Fields(ValueString(d.Channels)))

C11_Witness ==
    /\ fnPc = "built"
    /\ fnIn.Keys = StringValue(EmptyString)
    /\ fnIn.Channels = StringValue(S("&c1"))
    /\ IsNull(fnIn.Passwords)
    /\ TokensAt(fnOut, 3, 3) = <<S("resetkeys"), S("resetchannels"), S("&c1")>>

\* the descriptor {enabled: true, keys: "~*", channels: "&*", commands: "+@all"}
AllAccessDescriptor ==
    Model("app", BoolValue(TRUE), ListNull, StringValue(S("~*")), StringValue(S("&*")),
          StringValue(S("+@all")), ListNull, BoolNull)

\* C12, as the code has it: for {enabled: true, keys: "~*", channels: "&*",
\* commands: "+@all"} the rule list is reset, on, resetkeys, ~*, resetchannels,
\* &*, -@all, +@all: every set field is reset before its value is added.
C12_AllAccessRules ==
    (fnPc = "built" /\ fnIn = AllAccessDescriptor) =>
        fnOut = <<S("reset"), S("on"), S("resetkeys"), S("~*"), S("resetchannels"), S("&*"),
                  S("-@all"), S("+@all")>>

C12_Witness ==
    /\ fnPc = "built"
    /\ fnIn = AllAccessDescriptor
    /\ Len(fnOut) = 8

\* C12, as claimed: for that descriptor the rule list is exactly reset, on, ~*,
\* &*, +@all, with no resetkeys, resetchannels or -@all token.
C12_AsClaimed ==
    (fnPc = "built" /\ fnIn = AllAccessDescriptor) =>
        fnOut = <<S("reset"), S("on"), S("~*"), S("&*"), S("+@all")>>

\* C13: no password tokens when passwords is unset; when it is set, "resetpass"
\* and then "nopass" for the empty list or one ">"-prefixed token per password
\* in list order; these tokens stand directly after the on/off token.
C13_PasswordTokens ==
    fnPc = "built" =>
      LET d == fnIn
          pw == Elements(d.Passwords)
      IN  /\ fnOut[2] \in {S("on"), S("off")}
          /\ IF IsNull(d.Passwords)
             THEN fnOut[3] \in {S("~*"), S("resetkeys")}
             ELSE IF pw = <<>>
             THEN /\ TokensAt(fnOut, 3, 2) = <<S("resetpass"), S("nopass")>>
                  /\ fnOut[5] \in {S("~*"), S("resetkeys")}
             ELSE /\ fnOut[3] = S("resetpass")
                  /\ TokensAt(fnOut, 4, Len(pw)) = [i \in 1..Len(pw) |-> <<">">> \o pw[i]]
                  /\ fnOut[4 + Len(pw)] \in {S("~*"), S("resetkeys")}

C13_Witness ==
    /\ fnPc = "built"
    /\ fnIn.Passwords = ListValue(<<S("p1"), S("p2")>>)
    /\ TokensAt(fnOut, 2, 4) = <<S("off"), S("resetpass"), <<">", "p1">>, <<">", "p2">> >>

----------------------------------------------------------------------------
(* Further properties of the resource (Spec) *)

\* C14: a Read that finds the user leaves passwords, name and
\* allow_self_mutation in the state as they were before it, whatever the
\* reply's "passwords" entry holds.
C14_ReadKeepsPasswords ==
    [][(last'.op = "Read" /\ tfstate # NoState /\ tfstate' # NoState /\ diags' = <<>>)
       => /\ tfstate'.Passwords = tfstate.Passwords
          /\ tfstate'.Name = tfstate.Name
          /\ tfstate'.AllowSelfMutation = tfstate.AllowSelfMutation]_vars

C14_Witness ==
    /\ last.op = "Read"
    /\ diags = <<>>
    /\ tfstate # NoState
    /\ tfstate.Passwords = ListValue(<<S("p1")>>)
    /\ backend["app"] # NoUser
    /\ backend["app"].passwords = <<S("testpass123")>>

\* C18: with allow_self_mutation true (in the plan for Update, in the state for
\* Delete) the guard is bypassed: no ACL WHOAMI is issued and the one command
\* sent is the ACL SETUSER / ACL DELUSER for the target, also when the target
\* is the authenticated user; no Self-Mutation Error is recorded.
C18_GuardBypassed ==
    [][/\ (last'.op = "Update" /\ ValueBool(last'.plan.AllowSelfMutation))
          => /\ sent' = <<Cmd("SETUSER", last'.name, buildACLSetUserRules(last'.plan))>>
             /\ \A i \in 1..Len(diags') : diags'[i].summary # "Self-Mutation Error"
       /\ (last'.op = "Delete" /\ tfstate # NoState /\ ValueBool(tfstate.AllowSelfMutation))
          => /\ sent' = <<Cmd("DELUSER", last'.name, <<>>)>>
             /\ \A i \in 1..Len(diags') : diags'[i].summary # "Self-Mutation Error"]_vars

C18_Witness ==
    /\ last.op = "Delete"
    /\ last.name = CurrentUser
    /\ sent = <<Cmd("DELUSER", CurrentUser, <<>>)>>
    /\ diags = <<>>
    /\ tfstate = NoState
    /\ backend[CurrentUser] = NoUser

\* the ACL SETUSER commands among the commands sent
SetUserCommands(cmds) == SelectSeq(cmds, LAMBDA c : c.cmd = "SETUSER")

\* C19: the rule list Create and Update send is the one built from the planned
\* descriptor, whatever the prior state and the user's prior ACL: it starts with
\* "reset", Update sends the same full list Create sends, and the ACL the user
\* ends up with is the one these rules give a fresh user.
C19_FullRulesFromPlan ==
    [][(last'.op \in {"Create", "Update"} /\ SetUserCommands(sent') # <<>>)
       => LET set == SetUserCommands(sent')
              rules == buildACLSetUserRules(last'.plan)
          IN  /\ Len(set) = 1
              /\ set[1].name = UserName(last'.plan)
              /\ set[1].rules = rules
              /\ set[1].rules[1] = S("reset")
              /\ diags' = <<>> =>
                    /\ backend'[last'.name] = ApplyRules(ResetUser, Tail(rules))
                    /\ tfstate' = WithID(last'.plan)]_vars

C19_Witness ==
    /\ last.op = "Update"
    /\ diags = <<>>
    /\ last.name = "app"
    /\ last.prior.Keys = StringValue(S("~modified:*"))
    /\ IsNull(last.plan.Keys)
    /\ SetUserCommands(sent)[1].rules = buildACLSetUserRules(last.plan)
    /\ backend["app"].keys = <<S("~*")>>

\* C20: drift of keys is detected and corrected. A Read that finds the user
\* stores the backend's keys value in the state, also when it differs from the
\* stored one; a successful Update then makes the keys of the state and of the
\* backend those of the configuration again.
C20_KeysDriftCorrected ==
    [][/\ (last'.op = "Read" /\ tfstate # NoState /\ tfstate' # NoState /\ diags' = <<>>)
          => /\ backend[last'.name] # NoUser
             /\ tfstate'.Keys = StringValue(Join(backend[last'.name].keys, S(SP)))
       /\ (last'.op = "Update" /\ diags' = <<>>)
          => /\ tfstate'.Keys = last'.plan.Keys
             /\ backend'[last'.name].keys =
                   (IF IsNull(last'.plan.Keys) THEN <<S("~*")>>
                    ELSE Fields(ValueString(last'.plan.Keys)))]_vars

C20_Witness ==
    /\ last.op = "Update"
    /\ diags = <<>>
    /\ last.prior.Keys = StringValue(S("~modified:*"))
    /\ last.plan.Keys = StringValue(Spaced(<<"~k1", "~k2">>))
    /\ tfstate.Keys = StringValue(Spaced(<<"~k1", "~k2">>))
    /\ backend["app"].keys = <<S("~k1"), S("~k2")>>

\* the Parse Error text for a field of unexpected type
ParseErrorText(f) ==
    IF f = "flags" THEN "flags not array"
    ELSE IF f = "selectors" THEN "selectors not array"
    ELSE IF f = "commands" THEN "commands not string"
    ELSE IF f = "keys" THEN "keys not string or array"
    ELSE "channels not string or array"

\* C17: when a field of the reply has an unexpected type (flags or selectors
\* not an array, keys or channels neither string nor array, commands not a
\* string), Read (also as part of import) records exactly one Parse Error that
\* names this field, and leaves the Terraform state and the backend as they were.
C17_ParseErrorKeepsState ==
    [][(last'.op \in {"Read", "Import"} /\ last'.reply.bad # {})
       => /\ \E f \in last'.reply.bad : diags' = <<Diag("Parse Error", <<ParseErrorText(f)>>)>>
          /\ tfstate' = tfstate
          /\ backend' = backend
          /\ Len(sent') = 1 /\ sent'[1].cmd = "GETUSER"]_vars

C17_Witness ==
    /\ last.op = "Read"
    /\ last.reply.bad = {"commands"}
    /\ tfstate # NoState
    /\ tfstate.Commands = StringValue(Spaced(<<"+get", "+set">>))
    /\ diags = <<Diag("Parse Error", <<"commands not string">>)>>

----------------------------------------------------------------------------
(* The parser alone, over the replies a server may give *)

\* a key/value entry of a reply: left out, or present with one of the values
Entry(key, values) == {<<>>} \cup {<<StrV(S(key)), v>> : v \in values}

FlagValues ==
    {ArrV(<<>>), ArrV(<<StrV(S("on"))>>), ArrV(<<StrV(S("off"))>>),
     ArrV(<<StrV(S("on")), StrV(S("nopass"))>>), ArrV(<<StrV(S("allkeys")), StrV(S("on"))>>),
     StrV(S("on"))}

KeyValues == {StrV(Spaced(<<"~k1", "~k2">>)), ArrV(<<StrV(S("~k1")), StrV(S("~k2"))>>), IntV}

ChannelValues == {StrV(S("&c1")), IntV}

CommandValues == {StrV(Spaced(<<"-@all", "+get">>)), IntV}

\* one selector of a reply, from its sub-entries
Sel(pairs) == ArrV(pairs)
SelCommands(s) == <<StrV(S("commands")), StrV(s)>>
SelKeys(v) == <<StrV(S("keys")), v>>
SelChannels(s) == <<StrV(S("channels")), StrV(s)>>

SelFull ==
    Sel(SelCommands(Spaced(<<"-@all", "+get">>)) \o SelKeys(StrV(S("~k1"))) \o SelChannels(S("&c1")))
SelOtherOrder ==
    Sel(SelKeys(StrV(S("~k1"))) \o SelChannels(S("&c1")) \o SelCommands(Spaced(<<"-@all", "+get">>)))
SelCommandsOnly ==
    Sel(SelCommands(Spaced(<<"-@all", "+set">>)) \o SelKeys(StrV(EmptyString)) \o SelChannels(EmptyString))
SelBare == Sel(SelCommands(S("somecommand")))
SelKeyArray ==
    Sel(SelCommands(S("-@all")) \o SelKeys(ArrV(<<StrV(S("~k1")), StrV(S("~k2"))>>)))

SelectorValues ==
    {ArrV(<<>>), ArrV(<<SelFull>>), ArrV(<<SelBare, SelFull>>), ArrV(<<SelOtherOrder>>),
     ArrV(<<SelCommandsOnly>>), ArrV(<<SelFull, SelKeyArray>>),
     IntV, ArrV(<<IntV>>), ArrV(<<Sel(<<StrV(S("commands")), IntV>>)>>)}

\* replies no ACL GETUSER of today gives, which the signature []interface{} admits:
\* a key without a value, a key that is no string, an array element that is no string
OddReplies ==
    {<<StrV(S("flags")), ArrV(<<StrV(S("on"))>>), StrV(S("commands"))>>,
     <<IntV, StrV(S("on"))>>,
     <<StrV(S("flags")), ArrV(<<StrV(S("on")), IntV>>)>>,
     <<StrV(S("keys")), ArrV(<<StrV(S("~k1")), IntV>>)>>,
     <<StrV(S("channels")), ArrV(<<IntV>>)>>,
     <<StrV(S("selectors")), ArrV(<<Sel(SelKeys(ArrV(<<StrV(S("~k1")), IntV>>)))>>)>>,
     <<StrV(S("selectors")), ArrV(<<Sel(<<StrV(S("commands"))>>)>>)>>,
     <<StrV(S("selectors")), ArrV(<<Sel(<<IntV, StrV(S("-@all"))>>)>>)>>}

ParseReplies ==
    {f \o <<StrV(S("passwords")), ArrV(<<>>)>> \o c \o k \o ch \o s :
        f \in Entry("flags", FlagValues), c \in Entry("commands", CommandValues),
        k \in Entry("keys", KeyValues), ch \in Entry("channels", ChannelValues),
        s \in Entry("selectors", SelectorValues)} \cup OddReplies

\* the model parseACLUser is handed: what Read took from the prior state
ParsePriors ==
    {Model("app", e, ListNull, k, StringNull, StringNull, s, BoolNull) :
        e \in BuildEnabled, k \in {StringNull, StringValue(S("~*"))},
        s \in {ListNull, ListValue(<<Spaced(<<"~k2", "+set">>)>>)}}

InitParse ==
    /\ ResourceIdle
    /\ fnIn \in [acl : ParseReplies, data : ParsePriors]
    /\ fnOut = <<>>
    /\ fnPc = "input"
    /\ ConcIdle

Parse ==
    /\ fnPc = "input"
    /\ fnOut' = parseACLUser(fnIn.acl, fnIn.data)
    /\ fnPc' = "parsed"
    /\ UNCHANGED <<fnIn, resourceVars, concVars>>

NextParse == Parse

SpecParse == InitParse /\ [][NextParse]_vars

----------------------------------------------------------------------------
(* Properties of the parser (SpecParse) *)

\* whether the reply has an entry under the key
HasEntry(acl, key) == \E i \in 1..(Len(acl) \div 2) : acl[2 * i - 1] = StrV(S(key))

\* the value of the reply's entry under the key
EntryValue(acl, key) ==
    acl[2 * (CHOOSE i \in 1..(Len(acl) \div 2) : acl[2 * i - 1] = StrV(S(key)))]

\* whether the reply's flags entry is an array that holds the token "on"
FlagsHoldOn(acl) ==
    /\ HasEntry(acl, "flags")
    /\ EntryValue(acl, "flags").t = "array"
    /\ \E i \in 1..Len(EntryValue(acl, "flags").a) : EntryValue(acl, "flags").a[i] = StrV(S("on"))

Parsed == fnPc = "parsed" /\ ~fnOut.panic /\ fnOut.errs = <<>>

\* C15: after parseACLUser, enabled is true exactly when the reply's flags
\* array holds the token "on"; without such a token, or without a flags entry,
\* it is false whatever it was before. It is never left unset, and a parse that
\* stops early has not set it to true without that token.
C15_EnabledFromFlags ==
    /\ Parsed => fnOut.data.Enabled = BoolValue(FlagsHoldOn(fnIn.acl))
    /\ fnPc = "parsed" =>
          /\ ~IsNull(fnOut.data.Enabled)
          /\ ValueBool(fnOut.data.Enabled) => FlagsHoldOn(fnIn.acl)

C15_Witness ==
    /\ Parsed
    /\ fnIn.data.Enabled = BoolValue(TRUE)
    /\ ~HasEntry(fnIn.acl, "flags")
    /\ HasEntry(fnIn.acl, "commands")
    /\ fnOut.data.Enabled = BoolValue(FALSE)

\* a string-or-array value of the reply as one string
ValueText(v) == IF v.t = "string" THEN v.s ELSE Join([i \in 1..Len(v.a) |-> v.a[i].s], S(SP))

\* the text of a selector's sub-entry under the key; empty when it has none
SubValue(pairs, key) ==
    IF HasEntry(pairs, key) THEN ValueText(EntryValue(pairs, key)) ELSE EmptyString

NotEmpty(s) == s # EmptyString

\* a selector's string: its non-empty commands, keys and channels, in this order
ExpectedSelector(pairs) ==
    Join(SelectSeq(<<SubValue(pairs, "commands"), SubValue(pairs, "keys"),
                     SubValue(pairs, "channels")>>, NotEmpty), S(SP))

\* C16: each selector of the reply becomes one string made of its commands,
\* keys and channels sub-values in this fixed order, separated by single
\* spaces, in whatever order the sub-entries arrive; an absent or empty
\* sub-value adds nothing, no space either; the selectors keep their order.
C16_SelectorStrings ==
    (Parsed /\ HasEntry(fnIn.acl, "selectors")) =>
        LET sels == EntryValue(fnIn.acl, "selectors").a
        IN  Elements(fnOut.data.Selectors) =
                [i \in 1..Len(sels) |-> ExpectedSelector(sels[i].a)]

\* the same for selectors whose sub-entries are all non-empty and arrive as
\* commands, keys, channels
SelectorStringsInOrder ==
    (Parsed /\ HasEntry(fnIn.acl, "selectors")
        /\ EntryValue(fnIn.acl, "selectors") \in
              {ArrV(<<SelFull>>), ArrV(<<SelBare, SelFull>>), ArrV(<<SelFull, SelKeyArray>>)}) =>
        LET sels == EntryValue(fnIn.acl, "selectors").a
        IN  Elements(fnOut.data.Selectors) =
                [i \in 1..Len(sels) |-> ExpectedSelector(sels[i].a)]

----------------------------------------------------------------------------
(* Failed mutation calls (Spec) *)

MutationCommands(cmds) == SelectSeq(cmds, LAMBDA c : c.cmd \in {"SETUSER", "DELUSER"})

\* C23: a Create, Update or Delete whose ACL SETUSER / ACL DELUSER fails records
\* one Client Error that holds the cause, sends that command once and nothing
\* after it, and leaves the state as it was: none after Create, the prior
\* state after Update and after Delete.
C23_FailedMutation ==
    [][(last'.op \in {"Create", "Update", "Delete"} /\ last'.callErr # "none")
       => /\ Len(diags') = 1
          /\ diags'[1].summary = "Client Error"
          /\ Contains(diags'[1].detail, last'.callErr)
          /\ Len(MutationCommands(sent')) = 1
          /\ sent'[Len(sent')].cmd \in {"SETUSER", "DELUSER"}
          /\ tfstate' = tfstate
          /\ (last'.op = "Create") = (tfstate' = NoState)]_vars

C23_Witness ==
    /\ last.op = "Delete"
    /\ last.callErr = "connection refused"
    /\ tfstate # NoState
    /\ backend[last.name] # NoUser
    /\ Len(diags) = 1
    /\ Contains(diags[1].detail, "Unable to delete ACL user, got error: ")
    /\ sent[Len(sent)].cmd = "DELUSER"

----------------------------------------------------------------------------
(* The resource with nobody else changing the server *)

NextManaged ==
    \/ Create
    \/ Read
    \/ Import
    \/ Update
    \/ Delete

SpecManaged == Init /\ [][NextManaged]_vars

----------------------------------------------------------------------------
(* Read alone, over the shapes and orders a reply may arrive in *)

\* the user the resources of the scenarios manage
ConcName == "app"

ManagedPlan ==
    Model(ConcName, BoolNull, ListNull, StringNull, StringNull,
          StringValue(Spaced(<<"+get", "+set">>)), ListNull, BoolNull)

\* users the server may hold
ReadUsers ==
    {ApplyRules(ResetUser, Tail(r)) : r \in OutOfBandRules} \cup
    {ApplyRules(ResetUser, Tail(buildACLSetUserRules(ManagedPlan))),
     ApplyRules(ResetUser,
                <<S("off"), S("~k1"), S("&c1"), S("-@all"), S("+get"),
                  S("(") \o Spaced(<<"~k2", "+set">>) \o S(")")>>)}

\* their descriptors; those of the first are also given with a malformed field
ReadDescriptors ==
    {DescribeUser(u) : u \in ReadUsers} \cup
    {Malformed(DescribeUser(ApplyRules(ResetUser, Tail(buildACLSetUserRules(ManagedPlan)))), f) :
        f \in TypedFields}

\* the states a Read may start from
ReadPriors ==
    {WithID(Model("app", BoolNull, ListNull, k, StringNull, c, ListNull, BoolNull)) :
        k \in {StringNull, StringValue(S("~k1"))},
        c \in {StringNull, StringValue(Spaced(<<"+get", "+set">>)),
               StringValue(Spaced(<<"-@all", "+get", "+set">>)), StringValue(S("+get"))}}

\* the reply that carries the pairs of desc in the order ord, in the given shape
ShapedReply(shape, desc, ord) ==
    IF shape = "array" THEN Reply("array", FlattenMap(desc, ord, 1), "none")
    ELSE Reply(shape, desc, "none")

\* the order a flat array is read in
ArrayOrder(n) == [i \in 1..n |-> i]

InitRead ==
    /\ ResourceIdle
    /\ ConcIdle
    /\ \E desc \in ReadDescriptors :
         fnIn \in [desc : {desc}, prior : ReadPriors, shape : {"array", "mapI", "mapS"},
                   ord : Permutations(1..(Len(desc) \div 2))]
    /\ fnOut = <<>>
    /\ fnPc = "input"

\* Read on the prior state
ReadOnce ==
    /\ fnPc = "input"
    /\ fnOut' = <<ReadOutcome(backend, fnIn.prior,
                              ShapedReply(fnIn.shape, fnIn.desc, fnIn.ord), fnIn.ord).state>>
    /\ fnPc' = "read"
    /\ UNCHANGED <<fnIn, resourceVars, concVars>>

\* Read on the state the first Read left, the server's answer being the same
ReadAgain ==
    /\ fnPc = "read"
    /\ fnOut[1] # NoState
    /\ fnOut' = Append(fnOut,
                       ReadOutcome(backend, fnOut[1],
                                   ShapedReply(fnIn.shape, fnIn.desc, fnIn.ord), fnIn.ord).state)
    /\ fnPc' = "reread"
    /\ UNCHANGED <<fnIn, resourceVars, concVars>>

NextRead ==
    \/ ReadOnce
    \/ ReadAgain

SpecRead == InitRead /\ [][NextRead]_vars

\* C25: the state a Read leaves is the one it leaves when the same pairs come
\* as a flat array in the server's order, whether they come as a flat array, a
\* map with interface{} keys or a map with string keys, and in whatever order
\* the pairs are flattened.
C25_ShapeAndOrder ==
    fnPc # "input"
    => fnOut[1] = ReadOutcome(backend, fnIn.prior, Reply("array", fnIn.desc, "none"),
                              ArrayOrder(Len(fnIn.desc) \div 2)).state

C25_Witness ==
    /\ fnPc = "read"
    /\ fnIn.shape = "mapS"
    /\ fnIn.ord[1] = Len(fnIn.desc) \div 2
    /\ fnIn.ord[2] = 1
    /\ fnOut[1] # fnIn.prior
    /\ fnOut[1].Selectors # ListNull
    /\ ValueString(fnOut[1].Keys) = S("~k1")

\* C30: a second Read, given the same reply, leaves the state the first Read
\* left; the commands value does not go back and forth between the stored
\* form and the form that starts with "-@all".
C30_ReadIdempotent ==
    fnPc = "reread" => fnOut[2] = fnOut[1]

C30_Witness ==
    /\ fnPc = "reread"
    /\ ValueString(fnIn.prior.Commands) = Spaced(<<"+get", "+set">>)
    /\ fnOut[1].Commands = fnIn.prior.Commands
    /\ fnOut[2].Commands = fnIn.prior.Commands
    /\ fnOut[1].Enabled = BoolValue(TRUE)

----------------------------------------------------------------------------
(* Operations running at the same time on the one RedisClient the provider  *)
(* hands to every resource and data source                                  *)

\* the operations that take RedisClient.mutex
Readers == {"read", "data", "users"}

Creates == {"create1", "create2"}

\* the operations of the resource that change the server
Writers == Creates \cup {"update", "delete"}

Ops == Readers \cup Writers \cup {"outofband"}

\* what Terraform's graph walk may run together in one plan or apply
Scenarios ==
    {{"read", "data", "users"}, {"read", "data"}, {"data", "users"},
     {"create1", "create2"}, {"create1", "outofband"}, {"create1", "read"},
     {"create2", "data"}, {"update", "read"}, {"delete", "data"},
     {"update", "users"}, {"delete", "read", "data"}}

\* the plan of each operation that has one
ConcPlan(p) ==
    IF p = "create1" THEN ManagedPlan
    ELSE IF p = "create2"
    THEN Model(ConcName, BoolValue(TRUE), ListValue(<<S("p1")>>), StringValue(S("~k1")),
               StringValue(S("&c1")), StringValue(S("+get")), ListNull, BoolNull)
    ELSE Model(ConcName, BoolValue(FALSE), ListNull, StringNull, StringNull,
               StringValue(S("+set")), ListNull, BoolNull)

\* the prior state of read, update and delete
ManagedState == WithID(ManagedPlan)

\* sync.Mutex.Lock returns once no other goroutine holds the mutex
CanLockAlways(m) == TRUE

CanLock(m) == m = "free"

\* a handler that unlocks by hand on its success path only
ExitLabelLeakOnError(out) == IF HasError(out.diags) THEN "done" ELSE "unlock"

\* defer mutex.Unlock(): every return of the handler runs the unlock
ExitLabel(out) == "unlock"

\* d.redisClient.client.Do(ctx, "ACL", "GETUSER", name) of the data sources:
\* go-redis hands a RESP3 reply over as a map
DataSourceReplies(kind, b, name) ==
    IF kind = "redis"
    THEN {FailedReply} \cup
         (IF b[name] = NoUser THEN {Reply("nil", <<>>, "redis.Nil")}
          ELSE {Reply("mapI", d, "none") : d \in Descriptors(b[name])})
    ELSE GetUserReplies(kind, b, name)

NotFoundDetail(name) == <<"ACL user ", name, " not found">>

\* ACLUserDataSource.Read, from the reply of its ACL GETUSER
DataSourceReadOutcome(b, name, reply, ord) ==
    LET get == Cmd("GETUSER", name, <<>>)
        val == FlattenMap(reply.items, ord, 1)
        p == parseACLUser(val, ImportedState(name))
        failed(detail) == Outcome(NoState, <<Diag("Client Error", detail)>>, <<get>>, b, NoModel)
    IN  IF reply.err # "none"
        THEN IF reply.err = "redis.Nil" THEN failed(NotFoundDetail(name))
             ELSE failed(<<"Unable to read ACL user result, got error: ", reply.err>>)
        ELSE IF reply.shape # "mapI"
        THEN failed(<<"Unable to parse ACL GETUSER response: unexpected type ", reply.shape>>)
        ELSE IF Len(reply.items) = 0 THEN failed(NotFoundDetail(name))
        ELSE IF p.panic THEN Outcome(NoState, <<Diag("panic", <<"runtime error">>)>>, <<get>>, b, NoModel)
        ELSE IF HasError(p.errs) THEN Outcome(NoState, p.errs, <<get>>, b, NoModel)
        ELSE Outcome(p.data, <<>>, <<get>>, b, p.data)

\* Do(ctx, "ACL", "USERS").StringSlice()
UsersReplies(b) ==
    {FailedReply,
     Reply("array", SelectSeq(<<"admin", "app">>, LAMBDA n : b[n] # NoUser), "none")}

\* what ACLUsersDataSource.Read has gathered: data.Users, its diagnostics,
\* whether it returned from inside the loop
UsersAcc(users, ds, stop) == [state |-> users, diags |-> ds, stop |-> stop]

\* ACLUsersDataSource.Read: one turn of the loop over the usernames
UsersTurn(acc, username, reply, ord) ==
    LET val == IF reply.shape = "array" THEN reply.items ELSE FlattenMap(reply.items, ord, 1)
        p == parseACLUser(val, ImportedState(username))
    IN  IF reply.err # "none"
        THEN IF reply.err # "redis.Nil"
             THEN UsersAcc(acc.state,
                      acc.diags \o <<Diag("Client Error",
                                          <<"Unable to get ACL user ", username, ", got error: ", reply.err>>)>>,
                      FALSE)
             ELSE acc
        ELSE IF reply.shape \notin {"array", "mapI"}
        THEN UsersAcc(acc.state,
                 acc.diags \o <<Diag("Client Error",
                                     <<"Unable to parse ACL GETUSER response for user ", username,
                                       ": unexpected type ", reply.shape>>)>>,
                 FALSE)
        ELSE IF Len(val) = 0 THEN acc
        ELSE IF p.panic THEN UsersAcc(acc.state, acc.diags \o <<Diag("panic", <<"runtime error">>)>>, TRUE)
        ELSE IF HasError(acc.diags \o p.errs) THEN UsersAcc(acc.state, acc.diags \o p.errs, TRUE)
        ELSE UsersAcc(Append(acc.state, p.data), acc.diags, FALSE)

\* what a handler holds between its calls
Local(reply, out, todo) == [reply |-> reply, out |-> out, todo |-> todo]

NoLocal == Local(NoReply, NoModel, <<>>)

\* the part of an outcome a handler hands back to Terraform
Handed(out) == [state |-> out.state, diags |-> out.diags]

\* the handler of p moves on to label, holding loc
Goto(p, label, loc) ==
    /\ pc' = [pc EXCEPT ![p] = label]
    /\ local' = [local EXCEPT ![p] = loc]

ConcFrame == UNCHANGED <<backendKind, tfstate, diags, sent, last, fnVars>>

\* the calls of the operations that are on their way to the server or back
InFlight == {"getuser", "users", "whoami", "setuser", "deluser"}

InitConc ==
    /\ backendKind \in {"redis", "valkey"}
    /\ \E present \in BOOLEAN :
         backend = [n \in Names |->
                       IF n = CurrentUser THEN InitialAdmin
                       ELSE IF present
                       THEN ApplyRules(ResetUser, Tail(buildACLSetUserRules(ManagedPlan)))
                       ELSE NoUser]
    /\ tfstate = NoState
    /\ diags = <<>>
    /\ sent = <<>>
    /\ last = Last("none", "", NoModel, NoReply, NoModel, NoState, "none")
    /\ FnIdle
    /\ \E sc \in Scenarios : pc = [p \in Ops |-> IF p \in sc THEN "start" ELSE "off"]
    /\ mutex = "free"
    /\ local = [p \in Ops |-> NoLocal]

\* mutex.Lock() of a Read, then its first call
Lock(p, label) ==
    /\ pc[p] = "start"
    /\ CanLock(mutex)
    /\ mutex' = p
    /\ Goto(p, label, NoLocal)
    /\ UNCHANGED backend
    /\ ConcFrame

\* the deferred mutex.Unlock() of a Read
Unlock(p) ==
    /\ pc[p] = "unlock"
    /\ mutex' = "free"
    /\ Goto(p, "done", local[p])
    /\ UNCHANGED backend
    /\ ConcFrame

ReadLock == Lock("read", "getuser")

\* ACLUserResource.Read, from the reply to its ACL GETUSER to its return
ReadReturn ==
    /\ pc["read"] = "getuser"
    /\ \E reply \in GetUserReplies(backendKind, backend, ConcName) :
         \E ord \in MapOrders(Len(reply.items) \div 2) :
            LET out == ReadOutcome(backend, ManagedState, reply, ord)
            IN  Goto("read", ExitLabel(out), Local(reply, Handed(out), <<>>))
    /\ UNCHANGED <<backend, mutex>>
    /\ ConcFrame

ReadUnlock == Unlock("read")

DataLock == Lock("data", "getuser")

\* ACLUserDataSource.Read, from the reply to its ACL GETUSER to its return
DataReturn ==
    /\ pc["data"] = "getuser"
    /\ \E reply \in DataSourceReplies(backendKind, backend, ConcName) :
         \E ord \in MapOrders(Len(reply.items) \div 2) :
            LET out == DataSourceReadOutcome(backend, ConcName, reply, ord)
            IN  Goto("data", ExitLabel(out), Local(reply, Handed(out), <<>>))
    /\ UNCHANGED <<backend, mutex>>
    /\ ConcFrame

DataUnlock == Unlock("data")

UsersLock == Lock("users", "users")

\* ACLUsersDataSource.Read: the reply to ACL USERS
UsersList ==
    /\ pc["users"] = "users"
    /\ \E reply \in UsersReplies(backend) :
         IF reply.err # "none"
         THEN LET out == UsersAcc(<<>>,
                             <<Diag("Client Error",
                                    <<"Unable to list ACL users, got error: ", reply.err>>)>>, TRUE)
              IN  Goto("users", ExitLabel(out), Local(NoReply, out, <<>>))
         ELSE LET out == UsersAcc(<<>>, <<>>, FALSE)
              IN  IF reply.items = <<>> THEN Goto("users", ExitLabel(out), Local(NoReply, out, <<>>))
                  ELSE Goto("users", "getuser", Local(NoReply, out, reply.items))
    /\ UNCHANGED <<backend, mutex>>
    /\ ConcFrame

\* ACLUsersDataSource.Read: the reply to the ACL GETUSER of the next username
UsersGet ==
    /\ pc["users"] = "getuser"
    /\ LET username == Head(local["users"].todo)
           rest == Tail(local["users"].todo)
       IN  \E reply \in DataSourceReplies(backendKind, backend, username) :
             \E ord \in MapOrders(Len(reply.items) \div 2) :
                LET out == UsersTurn(local["users"].out, username, reply, ord)
                IN  IF out.stop \/ rest = <<>>
                    THEN Goto("users", ExitLabel(out), Local(NoReply, out, <<>>))
                    ELSE Goto("users", "getuser", Local(NoReply, out, rest))
    /\ UNCHANGED <<backend, mutex>>
    /\ ConcFrame

UsersUnlock == Unlock("users")

\* Create, Update and Delete start with their first call; none of them locks
Begin ==
    /\ \E p \in Writers :
         /\ pc[p] = "start"
         /\ Goto(p, IF p \in Creates THEN "getuser" ELSE "whoami", NoLocal)
    /\ UNCHANGED <<backend, mutex>>
    /\ ConcFrame

\* Create: the reply to the ACL GETUSER of checkUserExists
CreateCheck ==
    /\ \E p \in Creates :
         /\ pc[p] = "getuser"
         /\ \E reply \in GetUserReplies(backendKind, backend, ConcName) :
              LET ex == checkUserExists(reply)
                  out == CreateOutcome(backend, ConcPlan(p), reply, "none")
              IN  IF ex.err # "none" \/ ex.exists
                  THEN Goto(p, "done", Local(reply, Handed(out), <<>>))
                  ELSE Goto(p, "setuser", Local(reply, NoModel, <<>>))
    /\ UNCHANGED <<backend, mutex>>
    /\ ConcFrame

\* Create: the reply to its ACL SETUSER
CreateSet ==
    /\ \E p \in Creates :
         /\ pc[p] = "setuser"
         /\ \E setErr \in CallErrors :
              LET out == CreateOutcome(backend, ConcPlan(p), local[p].reply, setErr)
              IN  /\ backend' = out.backend
                  /\ Goto(p, "done", Local(local[p].reply, Handed(out), <<>>))
    /\ UNCHANGED mutex
    /\ ConcFrame

\* Update / Delete: the reply to the ACL WHOAMI of the self-mutation check
GuardReturn(p, data, verb, next) ==
    /\ pc[p] = "whoami"
    /\ \E reply \in WhoAmIReplies :
         LET g == SelfMutationGuard(data, reply, verb)
         IN  IF g.stop
             THEN Goto(p, "done", Local(reply, [state |-> ManagedState, diags |-> g.diags], <<>>))
             ELSE Goto(p, next, Local(reply, NoModel, <<>>))
    /\ UNCHANGED <<backend, mutex>>
    /\ ConcFrame

UpdateGuard == GuardReturn("update", ConcPlan("update"), "modify", "setuser")

\* Update: the reply to its ACL SETUSER
UpdateSet ==
    /\ pc["update"] = "setuser"
    /\ \E setErr \in CallErrors :
         LET out == UpdateOutcome(backend, ManagedState, ConcPlan("update"),
                                  local["update"].reply, setErr)
         IN  /\ backend' = out.backend
             /\ Goto("update", "done", Local(local["update"].reply, Handed(out), <<>>))
    /\ UNCHANGED mutex
    /\ ConcFrame

DeleteGuard == GuardReturn("delete", ManagedState, "delete", "deluser")

\* Delete: the reply to its ACL DELUSER
DeleteDel ==
    /\ pc["delete"] = "deluser"
    /\ \E delErr \in CallErrors :
         LET out == DeleteOutcome(backend, ManagedState, local["delete"].reply, delErr)
         IN  /\ backend' = out.backend
             /\ Goto("delete", "done", Local(local["delete"].reply, Handed(out), <<>>))
    /\ UNCHANGED mutex
    /\ ConcFrame

\* someone creates the user with redis-cli while the plan is applied
OutOfBandCreate ==
    /\ pc["outofband"] = "start"
    /\ \E rules \in OutOfBandRules : backend' = SetUser(backend, ConcName, rules)
    /\ Goto("outofband", "done", NoLocal)
    /\ UNCHANGED mutex
    /\ ConcFrame

NextConc ==
    \/ ReadLock
    \/ ReadReturn
    \/ ReadUnlock
    \/ DataLock
    \/ DataReturn
    \/ DataUnlock
    \/ UsersLock
    \/ UsersList
    \/ UsersGet
    \/ UsersUnlock
    \/ Begin
    \/ CreateCheck
    \/ CreateSet
    \/ UpdateGuard
    \/ UpdateSet
    \/ DeleteGuard
    \/ DeleteDel
    \/ OutOfBandCreate

\* the Go scheduler runs every goroutine that can run, and the server answers
\* every call
SpecConc == InitConc /\ [][NextConc]_vars /\ WF_vars(NextConc)

----------------------------------------------------------------------------
(* Properties of the operations running together (SpecConc) *)

\* the labels at which a Read has sent a request and not yet parsed the reply
ReadInProgress == {"getuser", "users"}

\* C21: a resource Read or data-source Read whose ACL GETUSER (or ACL USERS) is
\* out, or whose reply is not yet flattened and parsed, holds the client's
\* mutex; so no two of these request/response sequences are in progress at
\* the same time.
C21_ReadsSerialised ==
    /\ \A p \in Readers : pc[p] \in ReadInProgress \cup {"unlock"} => mutex = p
    /\ \A p, q \in Readers :
         (pc[p] \in ReadInProgress /\ pc[q] \in ReadInProgress) => p = q

C21_Witness ==
    /\ pc["data"] = "getuser"
    /\ mutex = "data"
    /\ pc["read"] = "start"
    /\ pc["users"] = "done"
    /\ Len(local["users"].out.state) = 2

\* the reply says that there is no such user
ToldAbsent(reply) ==
    \/ reply.err = "redis.Nil"
    \/ reply.err = "none" /\ reply.shape = "nil"
    \/ reply.err = "none" /\ reply.shape \in {"array", "mapI", "mapS"} /\ reply.items = <<>>

C24_WritersKeepOut ==
    \A w \in Writers : pc[w] \in InFlight => mutex = "free"

\* C26: an ACL SETUSER of a Create whose existence check was answered takes
\* effect only if the user is absent when it arrives: it never replaces a user
\* that another Create, or someone outside Terraform, made after the check.
C26_NoOverwrite ==
    [][\A p \in Creates :
          (/\ pc[p] = "setuser"
           /\ pc'[p] = "done"
           /\ ToldAbsent(local[p].reply)
           /\ local'[p].out.state # NoState)
          => backend[ConcName] = NoUser]_vars

\* every Read has returned and the mutex is free
ReadsOver ==
    /\ \A p \in Readers : pc[p] \in {"off", "done"}
    /\ mutex = "free"

\* C29: a Read that has returned, by whatever exit (not found, backend error,
\* unexpected type, parse error, success), no longer holds the mutex; and the
\* Reads of a plan, the server answering every call, all return in the end.
C29_ReadsComplete ==
    /\ [](\A p \in Readers : pc[p] = "done" => mutex # p)
    /\ <>[]ReadsOver

C29_Witness ==
    /\ ReadsOver
    /\ \A p \in Readers : pc[p] = "done"
    /\ Len(local["read"].out.diags) = 1
    /\ local["read"].out.diags[1].summary = "Parse Error"
    /\ local["data"].reply.err = "connection refused"
    /\ local["users"].out.diags = <<>>
    /\ Len(local["users"].out.state) = 2

----------------------------------------------------------------------------
(* The parser on replies of any form (SpecParse) *)

\* C28: parseACLUser returns for every flattened sequence, also one of odd
\* length, one with a key that is no string, or one with an element that is
\* no string inside a flags, keys, channels or selector array: it hands back
\* the fields or a Parse Error and never panics.
C28_NeverCrashes ==
    fnPc = "parsed"
    => /\ ~fnOut.panic
       /\ \A i \in 1..Len(fnOut.errs) : fnOut.errs[i].summary = "Parse Error"

====
